---- MODULE Spec2Model ----
(***************************************************************************)
(* Model of calculateFifoPnl (frontend/src/utils/fifoCalculations.ts).     *)
(*                                                                         *)
(* Quantities are JavaScript numbers.  A run is modelled on a quantity     *)
(* grid: a quantity field holding n stands for n / den coins, where den    *)
(* (grid points per coin) is fixed for the run.  The code's literal        *)
(* 0.00000001 is 1 / EpsInv, so `x <= 0.00000001` is n * EpsInv <= den,    *)
(* i.e. n <= den \div EpsInv for an integer n.  Money amounts              *)
(* (realizedPnL, costOfRemainingShares) are likewise held times den.       *)
(***************************************************************************)
EXTENDS Integers, Sequences, FiniteSets, TLC

\* ---------------------------------------------------------------- bounds
MaxTx == 3          \* longest input of the general specification
MaxQty == 3         \* largest quantity (grid points) of a transaction
RefLen == 5         \* longest input of the reference-scenario specification
MaxCurTx == 3       \* longest input of the mixed-currency specification
MaxCallTx == 2      \* longest input of the repeated-call specification
MaxAssetTx == 2     \* longest per-asset group of the two-asset specification
MaxLiveTx == 3      \* longest input of the run-to-completion specification
MaxDashTx == 3      \* longest transaction list of the dashboard specification

\* the literal 0.00000001 of lines 78 and 83, as its reciprocal
EpsInv == 100000000

\* grids: half coins (nothing positive is near epsilon), and
\* 0.5e-8 coins (1 is below epsilon, 2 is epsilon, 3 is above it)
Dens == {2, 200000000}

\* the pricePerCoin values of the general specification
Prices == {1, 2}

Currencies == {"USD", "EUR"}
BaseCurrency == "USD"

VARIABLES
    txs,                        \* transactions (the input array)
    targetReportingCurrency,    \* the second argument
    den,                        \* quantity grid of the run
    i,                          \* index of the transaction `t` of the for loop
    buyLots,                    \* the lot queue
    realizedPnL,
    processedSellTransactions,
    sellQuantityRemaining,
    costOfRemainingShares,
    j,                          \* index of the lot of the forEach at line 99
    warnings,                   \* console.warn calls so far
    result,                     \* the returned object, NoResult before return
    pc,                         \* position in the function body
    matches,                    \* history: one record per matching iteration
    sellLog,                    \* history: the queue as each sell found it
    calls,                      \* caller: the invocations that have returned
    plan,                       \* caller: the inputs still to be passed
    other,                      \* caller: a second, suspended activation
    transactions,               \* dashboard: the state `transactions`
    netHoldings,                \* dashboard: the record of line 95
    holdings,                   \* dashboard: the state `holdings`
    transactionsByCoin,         \* dashboard: the record of line 209
    overallPnL,                 \* dashboard: the sum of line 217
    totalRealizedPnL,           \* dashboard: the state `totalRealizedPnL`
    gIdx,                       \* dashboard: index of the forEach at line 210
    keyIdx,                     \* dashboard: index of the key of the for-in at line 218
    dpc                         \* dashboard: position in its effects

vars == <<txs, targetReportingCurrency, den, i, buyLots, realizedPnL,
          processedSellTransactions, sellQuantityRemaining,
          costOfRemainingShares, j, warnings, result, pc, matches, sellLog,
          calls, plan, other, transactions, netHoldings, holdings,
          transactionsByCoin, overallPnL, totalRealizedPnL, gIdx, keyIdx, dpc>>

\* the variables of the dashboard component
dash == <<transactions, netHoldings, holdings, transactionsByCoin, overallPnL,
          totalRealizedPnL, gIdx, keyIdx, dpc>>

NoResult == [returned |-> FALSE]

\* ------------------------------------------------------- pure operators
Min(a, b) == IF a <= b THEN a ELSE b
Max(a, b) == IF a >= b THEN a ELSE b

\* x <= 0.00000001 for a quantity of q grid points
LeEpsilon(q) == q <= den \div EpsInv

\* line 52: the while condition
LoopCondAboveEpsilon(rem, lots) == ~LeEpsilon(rem) /\ Len(lots) > 0
LoopCond(rem, lots) == rem > 0 /\ Len(lots) > 0

\* line 53: buyLots[0]
LatestLot(lots) == Len(lots)
EarliestLot(lots) == 1

\* line 68: Math.min(sellQuantityRemaining, earliestLot.quantity)
QuantityWholeLot(rem, q) == q
QuantityMax(rem, q) == Max(rem, q)
QuantityOnePoint(rem, q) == Min(1, Min(rem, q))
QuantityToProcess(rem, q) == Min(rem, q)

\* lines 70-73: proceedsForThisPortion - costForThisPortion
PnlProceedsOnly(qty, sellPrice, lotPrice) == qty * sellPrice
PnlCostMinusProceeds(qty, sellPrice, lotPrice) == (qty * lotPrice) - (qty * sellPrice)
PnlOfPortion(qty, sellPrice, lotPrice) == (qty * sellPrice) - (qty * lotPrice)

\* line 78: earliestLot.quantity <= 0.00000001
IsDepletedZeroOnly(q) == q <= 0
IsDepleted(q) == LeEpsilon(q)

\* line 83: sellQuantityRemaining > 0.00000001
IsOversoldAnyRemainder(rem) == rem > 0
IsOversold(rem) == ~LeEpsilon(rem)

\* line 50: processedSellTransactions++
CountOnlyMatchable(n) == IF Len(buyLots) > 0 THEN n + 1 ELSE n
NextSellCount(n) == n + 1

\* line 49: let sellQuantityRemaining = t.quantity
InitialRemainder(t) == t.quantity

\* lines 42-47: the lot pushed for a buy; src is the identity of the object
\* (the position of the buy that created it)
NewLotShort(t, k) ==
    [quantity |-> Max(t.quantity - sellQuantityRemaining, 0),
     pricePerCoin |-> t.pricePerCoin,
     currencyAtTransaction |-> t.currencyAtTransaction,
     date |-> t.date, src |-> k]
NewLot(t, k) ==
    [quantity |-> t.quantity,
     pricePerCoin |-> t.pricePerCoin,
     currencyAtTransaction |-> t.currencyAtTransaction,
     date |-> t.date, src |-> k]

\* line 106: lot.quantity * lot.pricePerCoin
CostOfLotSameCurrency(lot) ==
    IF lot.currencyAtTransaction = targetReportingCurrency
    THEN lot.quantity * lot.pricePerCoin ELSE 0
CostOfLot(lot) == lot.quantity * lot.pricePerCoin

\* lines 42-47, 75: the lot is a fresh object literal, so the write to
\* earliestLot.quantity does not reach the transaction it was made from
InputAliasedToLot(input, lot, q) == [input EXCEPT ![lot.src].quantity = q]
InputAfterLotWrite(input, lot, q) == input

\* line 60: earliestLot.currencyAtTransaction !== t.currencyAtTransaction
PnlCurrencyMismatchTarget(lot, t) == lot.currencyAtTransaction # targetReportingCurrency
PnlCurrencyMismatch(lot, t) == lot.currencyAtTransaction # t.currencyAtTransaction

\* line 100: lot.currencyAtTransaction !== targetReportingCurrency
CostCurrencyMismatchNever(lot) == FALSE
CostCurrencyMismatch(lot) == lot.currencyAtTransaction # targetReportingCurrency

\* no second activation is suspended
NoFrame == [suspended |-> FALSE]

\* no value has been set yet
NoValue == [set |-> FALSE]

\* the function is not called from the dashboard component
NoDashboard ==
    /\ transactions = <<>>
    /\ netHoldings = <<>>
    /\ holdings = <<>>
    /\ transactionsByCoin = <<>>
    /\ overallPnL = 0
    /\ totalRealizedPnL = NoValue
    /\ gIdx = 1
    /\ keyIdx = 1
    /\ dpc = "none"

\* a caller that makes this one invocation only
SingleCall ==
    /\ calls = <<>>
    /\ plan = <<>>
    /\ other = NoFrame

\* ---------------------------------------------------------------- inputs
TxShape == [type : {"buy", "sell"}, quantity : 1..MaxQty, pricePerCoin : Prices]

\* a transaction array sorted by date ascending: the k-th has date k
MkTxs(f) ==
    [k \in 1..Len(f) |->
        [type |-> f[k].type, quantity |-> f[k].quantity,
         pricePerCoin |-> f[k].pricePerCoin,
         currencyAtTransaction |-> BaseCurrency, date |-> k]]

SeqsUpTo(S, n) == UNION {[1..m -> S] : m \in 0..n}

InitLocalsCountFromOne ==
    /\ i = 1
    /\ buyLots = <<>>
    /\ realizedPnL = 0
    /\ processedSellTransactions = 1
    /\ sellQuantityRemaining = 0
    /\ costOfRemainingShares = 0
    /\ j = 1
    /\ warnings = <<>>
    /\ result = NoResult
    /\ pc = "for"
    /\ matches = <<>>
    /\ sellLog = <<>>
InitLocals ==
    /\ i = 1
    /\ buyLots = <<>>
    /\ realizedPnL = 0
    /\ processedSellTransactions = 0
    /\ sellQuantityRemaining = 0
    /\ costOfRemainingShares = 0
    /\ j = 1
    /\ warnings = <<>>
    /\ result = NoResult
    /\ pc = "for"
    /\ matches = <<>>
    /\ sellLog = <<>>

Init ==
    /\ den \in Dens
    /\ targetReportingCurrency \in Currencies
    /\ txs \in {MkTxs(f) : f \in SeqsUpTo(TxShape, MaxTx)}
    /\ InitLocals
    /\ SingleCall
    /\ NoDashboard

\* ---------------------------------------------------------------- actions
RECURSIVE SumQty(_)
SumQty(lots) == IF lots = <<>> THEN 0 ELSE Head(lots).quantity + SumQty(Tail(lots))

\* lines 41-47: t.type === "buy"
BuyUnshift ==
    /\ pc = "for" /\ i <= Len(txs) /\ txs[i].type = "buy"
    /\ buyLots' = <<NewLot(txs[i], i)>> \o buyLots
    /\ i' = i + 1
    /\ UNCHANGED <<dash, calls, plan, other, txs, targetReportingCurrency, den, realizedPnL,
                   processedSellTransactions, sellQuantityRemaining,
                   costOfRemainingShares, j, warnings, result, pc, matches, sellLog>>
BuyMerging ==
    /\ pc = "for" /\ i <= Len(txs) /\ txs[i].type = "buy"
    /\ buyLots' =
          IF buyLots # <<>> /\ buyLots[Len(buyLots)].pricePerCoin = txs[i].pricePerCoin
          THEN [buyLots EXCEPT ![Len(buyLots)].quantity = @ + txs[i].quantity]
          ELSE Append(buyLots, NewLot(txs[i], i))
    /\ i' = i + 1
    /\ UNCHANGED <<dash, calls, plan, other, txs, targetReportingCurrency, den, realizedPnL,
                   processedSellTransactions, sellQuantityRemaining,
                   costOfRemainingShares, j, warnings, result, pc, matches, sellLog>>
Buy ==
    /\ pc = "for" /\ i <= Len(txs) /\ txs[i].type = "buy"
    /\ buyLots' = Append(buyLots, NewLot(txs[i], i))
    /\ i' = i + 1
    /\ UNCHANGED <<dash, calls, plan, other, txs, targetReportingCurrency, den, realizedPnL,
                   processedSellTransactions, sellQuantityRemaining,
                   costOfRemainingShares, j, warnings, result, pc, matches, sellLog>>

\* lines 48-50: t.type === "sell", up to the while loop
SellBegin ==
    /\ pc = "for" /\ i <= Len(txs) /\ txs[i].type = "sell"
    /\ sellQuantityRemaining' = InitialRemainder(txs[i])
    /\ processedSellTransactions' = NextSellCount(processedSellTransactions)
    /\ sellLog' = Append(sellLog, [tx |-> i, held |-> SumQty(buyLots), lots |-> Len(buyLots)])
    /\ pc' = "while"
    /\ UNCHANGED <<dash, calls, plan, other, txs, targetReportingCurrency, den, i, buyLots, realizedPnL,
                   costOfRemainingShares, j, warnings, result, matches>>

\* lines 52-76: one iteration of the while loop, up to the depletion test
MatchLot ==
    /\ pc = "while" /\ LoopCond(sellQuantityRemaining, buyLots)
    /\ LET t == txs[i]
           e == EarliestLot(buyLots)
           earliestLot == buyLots[e]
           quantityToProcess == QuantityToProcess(sellQuantityRemaining, earliestLot.quantity)
       IN /\ warnings' =
                IF PnlCurrencyMismatch(earliestLot, t)
                THEN Append(warnings, [kind |-> "pnlCurrency", tx |-> i, lot |-> earliestLot.src, unmatched |-> 0])
                ELSE warnings
          /\ realizedPnL' = realizedPnL
                + PnlOfPortion(quantityToProcess, t.pricePerCoin, earliestLot.pricePerCoin)
          /\ buyLots' = [buyLots EXCEPT ![e].quantity = @ - quantityToProcess]
          /\ sellQuantityRemaining' = sellQuantityRemaining - quantityToProcess
          /\ matches' = Append(matches,
                [tx |-> i, lot |-> earliestLot.src, qty |-> quantityToProcess,
                 remBefore |-> sellQuantityRemaining, lotBefore |-> earliestLot.quantity])
          /\ txs' = InputAfterLotWrite(txs, earliestLot,
                                        earliestLot.quantity - quantityToProcess)
    /\ pc' = "depleted"
    /\ UNCHANGED <<dash, calls, plan, other, targetReportingCurrency, den, i,
                   processedSellTransactions, costOfRemainingShares, j, result, sellLog>>

\* lines 78-80: shift the queue when the matched lot is depleted
RemoveDepleted ==
    /\ pc = "depleted"
    /\ buyLots' = IF IsDepleted(buyLots[EarliestLot(buyLots)].quantity)
                  THEN Tail(buyLots) ELSE buyLots
    /\ pc' = "while"
    /\ UNCHANGED <<dash, calls, plan, other, txs, targetReportingCurrency, den, i, realizedPnL,
                   processedSellTransactions, sellQuantityRemaining,
                   costOfRemainingShares, j, warnings, result, matches, sellLog>>

\* lines 52, 83-92: the loop ends, the oversell test, the next transaction
SellEnd ==
    /\ pc = "while" /\ ~LoopCond(sellQuantityRemaining, buyLots)
    /\ warnings' =
            IF IsOversold(sellQuantityRemaining)
            THEN Append(warnings, [kind |-> "oversell", tx |-> i, lot |-> 0, unmatched |-> sellQuantityRemaining])
            ELSE warnings
    /\ i' = i + 1
    /\ pc' = "for"
    /\ UNCHANGED <<dash, calls, plan, other, txs, targetReportingCurrency, den, buyLots, realizedPnL,
                   processedSellTransactions, sellQuantityRemaining,
                   costOfRemainingShares, j, result, matches, sellLog>>

\* line 98: the for loop is over
CostBegin ==
    /\ pc = "for" /\ i > Len(txs)
    /\ costOfRemainingShares' = 0
    /\ j' = 1
    /\ pc' = "cost"
    /\ UNCHANGED <<dash, calls, plan, other, txs, targetReportingCurrency, den, i, buyLots, realizedPnL,
                   processedSellTransactions, sellQuantityRemaining,
                   warnings, result, matches, sellLog>>

\* lines 99-107: one callback of buyLots.forEach
CostStep ==
    /\ pc = "cost" /\ j <= Len(buyLots)
    /\ LET lot == buyLots[j]
       IN /\ warnings' =
                IF CostCurrencyMismatch(lot)
                THEN Append(warnings, [kind |-> "costCurrency", tx |-> 0, lot |-> lot.src, unmatched |-> 0])
                ELSE warnings
          /\ costOfRemainingShares' = costOfRemainingShares + CostOfLot(lot)
    /\ j' = j + 1
    /\ UNCHANGED <<dash, calls, plan, other, txs, targetReportingCurrency, den, i, buyLots, realizedPnL,
                   processedSellTransactions, sellQuantityRemaining,
                   result, pc, matches, sellLog>>

\* lines 109-114: return
Return ==
    /\ pc = "cost" /\ j > Len(buyLots)
    /\ result' = [returned |-> TRUE,
                  realizedPnL |-> realizedPnL,
                  remainingShares |-> buyLots,
                  costOfRemainingShares |-> costOfRemainingShares,
                  processedSellTransactions |-> processedSellTransactions]
    /\ pc' = "done"
    /\ UNCHANGED <<dash, calls, plan, other, txs, targetReportingCurrency, den, i, buyLots, realizedPnL,
                   processedSellTransactions, sellQuantityRemaining,
                   costOfRemainingShares, j, warnings, matches, sellLog>>

Next ==
    \/ Buy
    \/ SellBegin
    \/ MatchLot
    \/ RemoveDepleted
    \/ SellEnd
    \/ CostBegin
    \/ CostStep
    \/ Return

Spec == Init /\ [][Next]_vars

\* ------------------------------------------- reference-scenario inputs
\* The transactions of the example of lines 119-125, on the half-coin grid:
\* 2, 1, 1.5, 0.5 and 1.5 coins are 4, 2, 3, 1 and 3 half coins.
RefShapes ==
    <<[type |-> "buy",  quantity |-> 4, pricePerCoin |-> 10000],
      [type |-> "buy",  quantity |-> 2, pricePerCoin |-> 12000],
      [type |-> "sell", quantity |-> 3, pricePerCoin |-> 15000],
      [type |-> "buy",  quantity |-> 1, pricePerCoin |-> 11000],
      [type |-> "sell", quantity |-> 3, pricePerCoin |-> 18000]>>

RefScenario == MkTxs(RefShapes)

\* every input of at most RefLen transactions drawn from the example's five
InitRef ==
    /\ den = 2
    /\ targetReportingCurrency = BaseCurrency
    /\ txs \in {MkTxs(f) : f \in SeqsUpTo({RefShapes[k] : k \in 1..5}, RefLen)}
    /\ InitLocals
    /\ SingleCall
    /\ NoDashboard

SpecRef == InitRef /\ [][Next]_vars

\* ------------------------------------------------------ claim vocabulary
Returned == result.returned

\* the (quantity, pricePerCoin) pairs of a queue
QtyPrice(lots) == [k \in 1..Len(lots) |-> <<lots[k].quantity, lots[k].pricePerCoin>>]

OversellWarned(k) == \E w \in 1..Len(warnings) : warnings[w].kind = "oversell" /\ warnings[w].tx = k

SellsIn(n) == {k \in 1..Min(n, Len(txs)) : txs[k].type = "sell"}

\* sum of f[k] over k in a finite set of indices
RECURSIVE SumOver(_, _)
SumOver(f, S) == IF S = {} THEN 0
                 ELSE LET k == CHOOSE x \in S : TRUE IN f[k] + SumOver(f, S \ {k})

\* C1: a sell reduces a lot only when no lot of an earlier buy is still in
\* the queue (lots are consumed strictly in acquisition order).
FifoOrder ==
    [][\A a \in 1..Len(buyLots) : \A b \in 1..Len(buyLots') :
          (buyLots'[b].src = buyLots[a].src /\ buyLots'[b].quantity < buyLots[a].quantity)
          => \A c \in 1..Len(buyLots) : buyLots[c].src >= buyLots[a].src]_vars

\* a sell has just reduced a lot while a later lot waits behind it
FifoOrderWitness ==
    /\ pc = "depleted" /\ Len(buyLots) >= 2
    /\ buyLots[1].quantity < txs[buyLots[1].src].quantity
    /\ buyLots[2].quantity = txs[buyLots[2].src].quantity

\* C2: realizedPnL is the sum over the matches performed of
\* matched * (sell unit price - lot unit cost), with
\* matched = min(remainder of the sell, quantity of the head lot).
PnlIsSumOfMatches ==
    /\ \A m \in 1..Len(matches) :
          matches[m].qty = Min(matches[m].remBefore, matches[m].lotBefore)
    /\ realizedPnL =
          SumOver([m \in 1..Len(matches) |->
                      matches[m].qty * (txs[matches[m].tx].pricePerCoin
                                        - txs[matches[m].lot].pricePerCoin)],
                  1..Len(matches))

\* a returned run with a match limited by the sell and one limited by the lot
PnlIsSumOfMatchesWitness ==
    /\ Returned /\ realizedPnL # 0
    /\ \E m \in 1..Len(matches) : matches[m].remBefore < matches[m].lotBefore
    /\ \E m \in 1..Len(matches) : matches[m].remBefore > matches[m].lotBefore

\* C3: the reference scenario: after the first sell realizedPnL = 7500 and
\* the queue is [0.5 @ 10000, 1 @ 12000]; the result is realizedPnL = 17500,
\* remainingShares = [0.5 @ 11000], costOfRemainingShares = 5500 and
\* processedSellTransactions = 2.  (Quantities and amounts are times den.)
ReferenceScenario ==
    txs = RefScenario =>
        /\ (pc = "for" /\ i = 4) =>
              /\ realizedPnL = 7500 * den
              /\ QtyPrice(buyLots) = <<<<den \div 2, 10000>>, <<den, 12000>>>>
        /\ Returned =>
              /\ result.realizedPnL = 17500 * den
              /\ QtyPrice(result.remainingShares) = <<<<den \div 2, 11000>>>>
              /\ result.costOfRemainingShares = 5500 * den
              /\ result.processedSellTransactions = 2

ReferenceScenarioWitness == txs = RefScenario /\ Returned

\* C4: no lot ever has a negative quantity, during and after the run.
NoNegativeLot ==
    /\ \A k \in 1..Len(buyLots) : buyLots[k].quantity >= 0
    /\ Returned => \A k \in 1..Len(result.remainingShares) :
                      result.remainingShares[k].quantity >= 0

\* a sell larger than the holdings has just emptied the head lot
NoNegativeLotWitness ==
    /\ pc = "depleted" /\ Len(buyLots) = 1
    /\ buyLots[1].quantity = 0 /\ sellQuantityRemaining > 0

\* the sell being processed found the queue empty
CurrentSellFoundEmpty == sellLog # <<>> /\ sellLog[Len(sellLog)].lots = 0

OversellRecord(k, q) == [kind |-> "oversell", tx |-> k, lot |-> 0, unmatched |-> q]

\* the steps of a sell that finds the queue empty, up to the warning
EmptyQueueSellSteps ==
    /\ (pc = "for" /\ pc' = "while" /\ buyLots = <<>>) =>
          /\ processedSellTransactions' = processedSellTransactions + 1
          /\ sellQuantityRemaining' = txs[i].quantity
          /\ realizedPnL' = realizedPnL
          /\ buyLots' = <<>>
    /\ (pc = "while" /\ CurrentSellFoundEmpty) =>
          /\ pc' = "for" /\ i' = i + 1
          /\ realizedPnL' = realizedPnL
          /\ buyLots' = <<>>
          /\ processedSellTransactions' = processedSellTransactions

\* C5 as stated: every sell processed on an empty queue emits an oversell
\* warning for its full quantity, changes neither realizedPnL nor the queue,
\* and increments processedSellTransactions.
EmptyQueueSellAlwaysWarns ==
    [][/\ EmptyQueueSellSteps
       /\ (pc = "while" /\ CurrentSellFoundEmpty) =>
             warnings' = Append(warnings, OversellRecord(i, txs[i].quantity))]_vars

\* C5 amended: the same for a sell whose quantity is greater than epsilon;
\* a sell of at most epsilon on an empty queue emits no warning.
EmptyQueueSell ==
    [][/\ EmptyQueueSellSteps
       /\ (pc = "while" /\ CurrentSellFoundEmpty) =>
             warnings' = IF LeEpsilon(txs[i].quantity) THEN warnings
                         ELSE Append(warnings, OversellRecord(i, txs[i].quantity))]_vars

\* a sell above epsilon on an empty queue has been processed after an earlier sell
EmptyQueueSellWitness ==
    /\ pc = "for" /\ i > 2 /\ processedSellTransactions = 2
    /\ sellLog[2].lots = 0 /\ ~LeEpsilon(txs[sellLog[2].tx].quantity)
    /\ OversellWarned(sellLog[2].tx)

\* C6: after an oversell the unmatched remainder is dropped: the oversell
\* step adds no P&L, a later buy appends a lot with its full quantity, a
\* later sell starts from its own quantity and matches min(remainder, head).
OversellRemainderDropped ==
    [][(\E k \in 1..Len(txs) : OversellWarned(k)) =>
          /\ (pc = "for" /\ i <= Len(txs) /\ txs[i].type = "buy") =>
                /\ Len(buyLots') = Len(buyLots) + 1
                /\ buyLots'[Len(buyLots')].quantity = txs[i].quantity
                /\ realizedPnL' = realizedPnL
          /\ (pc = "for" /\ pc' = "while") =>
                sellQuantityRemaining' = txs[i].quantity
          /\ (pc = "while" /\ pc' = "depleted") =>
                /\ buyLots'[1].quantity =
                      buyLots[1].quantity - Min(sellQuantityRemaining, buyLots[1].quantity)
                /\ realizedPnL' = realizedPnL
                      + Min(sellQuantityRemaining, buyLots[1].quantity)
                        * (txs[i].pricePerCoin - buyLots[1].pricePerCoin)]_vars
    /\ [][(pc = "while" /\ pc' = "for") =>
             /\ realizedPnL' = realizedPnL
             /\ buyLots' = buyLots]_vars

\* an oversell, then a buy, then a sell matched against that buy's full lot
OversellRemainderDroppedWitness ==
    \E m \in 1..Len(matches) : \E k \in 1..Len(txs) :
        /\ OversellWarned(k) /\ k < matches[m].lot
        /\ matches[m].lotBefore = txs[matches[m].lot].quantity
        /\ sellLog[Len(sellLog)].tx > matches[m].lot

\* the sells whose processing is over
CompletedSells == {e \in 1..Len(sellLog) : sellLog[e].tx < i}

\* C7 as stated: a sell emits an oversell warning exactly when its quantity
\* exceeds the total quantity held in the queue when it is processed.
OversellIffExceedsHeld ==
    \A e \in CompletedSells :
        OversellWarned(sellLog[e].tx) <=> txs[sellLog[e].tx].quantity > sellLog[e].held

\* C7 amended: a sell emits an oversell warning exactly when its quantity
\* exceeds the total held by more than epsilon (1e-8).
OversellIffExceedsHeldByEpsilon ==
    \A e \in CompletedSells :
        OversellWarned(sellLog[e].tx)
            <=> ~LeEpsilon(txs[sellLog[e].tx].quantity - sellLog[e].held)

\* one sell that oversold a non-empty queue and one that did not oversell
OversellIffExceedsHeldWitness ==
    /\ \E e \in CompletedSells :
          sellLog[e].held > 0 /\ OversellWarned(sellLog[e].tx)
    /\ \E e \in CompletedSells :
          sellLog[e].held > 0 /\ ~OversellWarned(sellLog[e].tx)

\* C8: processedSellTransactions counts the sells encountered, matched or
\* not, and buys never change it: at every point of the run it is the number
\* of sells among the transactions begun so far, and the returned count is
\* the number of sells of the input.
SellCountIsSells ==
    /\ processedSellTransactions =
          Cardinality(SellsIn(IF pc \in {"while", "depleted"} THEN i ELSE i - 1))
    /\ Returned => result.processedSellTransactions = Cardinality(SellsIn(Len(txs)))

\* returned after a buy, a sell that matched and a sell that matched nothing
SellCountIsSellsWitness ==
    /\ Returned /\ result.processedSellTransactions = 2
    /\ Len(txs) = 3 /\ Len(matches) = 1
    /\ \E e \in 1..Len(sellLog) : sellLog[e].lots = 0

\* C9: the returned costOfRemainingShares is the sum of quantity *
\* pricePerCoin over the lots of the returned remainingShares.
CostIsSumOfRemaining ==
    Returned =>
        result.costOfRemainingShares =
            SumOver([k \in 1..Len(result.remainingShares) |->
                        result.remainingShares[k].quantity
                        * result.remainingShares[k].pricePerCoin],
                    1..Len(result.remainingShares))

\* returned with two lots, one partly consumed, in a foreign reporting currency
CostIsSumOfRemainingWitness ==
    /\ Returned /\ Len(result.remainingShares) = 2
    /\ result.remainingShares[1].quantity < txs[result.remainingShares[1].src].quantity
    /\ result.remainingShares[1].currencyAtTransaction # targetReportingCurrency

\* the queue between transactions and in the returned result
BetweenTransactions == pc \in {"for", "cost", "done"}

\* C10 as stated: after every transaction, and in the result, every lot of
\* the queue has a quantity greater than epsilon.
EveryLotAboveEpsilon ==
    /\ BetweenTransactions => \A k \in 1..Len(buyLots) : ~LeEpsilon(buyLots[k].quantity)
    /\ Returned => \A k \in 1..Len(result.remainingShares) :
                      ~LeEpsilon(result.remainingShares[k].quantity)

\* C10 amended: after every transaction, and in the result, every lot of the
\* queue has a quantity greater than epsilon or still holds the whole
\* quantity of its buy (a buy of at most epsilon that no sell has matched).
EveryReducedLotAboveEpsilon ==
    /\ BetweenTransactions =>
          \A k \in 1..Len(buyLots) :
              \/ ~LeEpsilon(buyLots[k].quantity)
              \/ buyLots[k].quantity = txs[buyLots[k].src].quantity
    /\ Returned =>
          \A k \in 1..Len(result.remainingShares) :
              \/ ~LeEpsilon(result.remainingShares[k].quantity)
              \/ result.remainingShares[k].quantity
                    = txs[result.remainingShares[k].src].quantity

\* on the fine grid: a lot was reduced to a positive residue of at most
\* epsilon and is gone from the returned queue
EveryReducedLotAboveEpsilonWitness ==
    /\ Returned /\ den > EpsInv
    /\ \E m \in 1..Len(matches) :
          /\ matches[m].lotBefore > matches[m].qty
          /\ LeEpsilon(matches[m].lotBefore - matches[m].qty)
          /\ \A k \in 1..Len(result.remainingShares) :
                result.remainingShares[k].src # matches[m].lot

\* ------------------------------------------------------------ the caller
\* what the caller holds of the running activation once it has returned
CurrentCall == [txs |-> txs, target |-> targetReportingCurrency, result |-> result]

\* line 36: let realizedPnL = 0 is a local of each activation
EntryPnlCarried(before) == before
EntryPnl(before) == 0

\* the caller passes its next input to calculateFifoPnl, after the running
\* activation (and the suspended one, if any) has returned: lines 36-38
CallAgain ==
    /\ pc = "done" /\ plan # <<>>
    /\ IF other.suspended THEN other.pc = "done" ELSE TRUE
    /\ calls' = calls \o <<CurrentCall>>
                  \o (IF other.suspended
                      THEN <<[txs |-> other.txs, target |-> other.targetReportingCurrency,
                              result |-> other.result]>>
                      ELSE <<>>)
    /\ other' = NoFrame
    /\ txs' = Head(plan).txs
    /\ targetReportingCurrency' = Head(plan).target
    /\ plan' = Tail(plan)
    /\ i' = 1
    /\ buyLots' = <<>>
    /\ realizedPnL' = EntryPnl(realizedPnL)
    /\ processedSellTransactions' = 0
    /\ sellQuantityRemaining' = 0
    /\ costOfRemainingShares' = 0
    /\ j' = 1
    /\ warnings' = <<>>
    /\ result' = NoResult
    /\ pc' = "for"
    /\ matches' = <<>>
    /\ sellLog' = <<>>
    /\ UNCHANGED <<dash, den>>

\* the locals of an activation: each invocation has its own (lines 36-38,
\* 49, 98), so suspending one and resuming another exchanges all of them
ResumedPnlShared(f) == realizedPnL
ResumedPnl(f) == f.realizedPnL

Frame ==
    [suspended |-> TRUE, txs |-> txs, targetReportingCurrency |-> targetReportingCurrency,
     i |-> i, buyLots |-> buyLots, realizedPnL |-> realizedPnL,
     processedSellTransactions |-> processedSellTransactions,
     sellQuantityRemaining |-> sellQuantityRemaining,
     costOfRemainingShares |-> costOfRemainingShares, j |-> j,
     warnings |-> warnings, result |-> result, pc |-> pc,
     matches |-> matches, sellLog |-> sellLog]

\* a caller that runs two invocations in parallel lets the other one step
Switch ==
    /\ IF other.suspended THEN other.pc # "done" ELSE FALSE
    /\ other' = Frame
    /\ txs' = other.txs
    /\ targetReportingCurrency' = other.targetReportingCurrency
    /\ i' = other.i
    /\ buyLots' = other.buyLots
    /\ realizedPnL' = ResumedPnl(other)
    /\ processedSellTransactions' = other.processedSellTransactions
    /\ sellQuantityRemaining' = other.sellQuantityRemaining
    /\ costOfRemainingShares' = other.costOfRemainingShares
    /\ j' = other.j
    /\ warnings' = other.warnings
    /\ result' = other.result
    /\ pc' = other.pc
    /\ matches' = other.matches
    /\ sellLog' = other.sellLog
    /\ UNCHANGED <<dash, calls, plan, den>>

\* transactions of one asset; buys are priced 1 and sells 2
CallQuantities == {1, 2}

MkAssetTxs(f, coin) ==
    [k \in 1..Len(f) |->
        [type |-> f[k].type, quantity |-> f[k].quantity,
         pricePerCoin |-> IF f[k].type = "buy" THEN 1 ELSE 2,
         currencyAtTransaction |-> f[k].currencyAtTransaction,
         date |-> k, coinId |-> coin]]

\* ------------------------------------------------- repeated-call inputs
CallShape == [type : {"buy", "sell"}, quantity : CallQuantities,
              currencyAtTransaction : Currencies]

\* the same transactions with other currency codes
Recoded(f) ==
    {g \in [1..Len(f) -> CallShape] :
        \A k \in 1..Len(f) : g[k].type = f[k].type /\ g[k].quantity = f[k].quantity}

\* the caller passes an input, then the same transactions with any currency
\* codes and any reporting currency, then the first input again
InitCalls ==
    /\ den = 2
    /\ InitLocals
    /\ NoDashboard
    /\ calls = <<>>
    /\ other = NoFrame
    /\ targetReportingCurrency \in Currencies
    /\ \E f \in SeqsUpTo(CallShape, MaxCallTx) :
          /\ txs = MkAssetTxs(f, "bitcoin")
          /\ \E g \in Recoded(f) : \E c \in Currencies :
                plan = <<[txs |-> MkAssetTxs(g, "bitcoin"), target |-> c],
                         [txs |-> txs, target |-> targetReportingCurrency]>>

NextCalls == Next \/ CallAgain

SpecCalls == InitCalls /\ [][NextCalls]_vars

\* ----------------------------------------------------- two-asset inputs
AssetShape == [type : {"buy", "sell"}, quantity : CallQuantities,
               currencyAtTransaction : {BaseCurrency}]

AssetGroups(coin) ==
    {MkAssetTxs(f, coin) : f \in SeqsUpTo(AssetShape, MaxAssetTx) \ {<<>>}}

\* the caller runs the invocations for two assets in parallel, then each of
\* them alone
InitAssets ==
    /\ den = 2
    /\ InitLocals
    /\ NoDashboard
    /\ calls = <<>>
    /\ targetReportingCurrency = BaseCurrency
    /\ txs \in AssetGroups("bitcoin")
    /\ \E g \in AssetGroups("ethereum") :
          /\ other = [suspended |-> TRUE, txs |-> g,
                      targetReportingCurrency |-> targetReportingCurrency,
                      i |-> 1, buyLots |-> <<>>, realizedPnL |-> 0,
                      processedSellTransactions |-> 0, sellQuantityRemaining |-> 0,
                      costOfRemainingShares |-> 0, j |-> 1, warnings |-> <<>>,
                      result |-> NoResult, pc |-> "for",
                      matches |-> <<>>, sellLog |-> <<>>]
          /\ plan = <<[txs |-> txs, target |-> targetReportingCurrency],
                      [txs |-> g, target |-> targetReportingCurrency]>>

NextAssets == Next \/ Switch \/ CallAgain

SpecAssets == InitAssets /\ [][NextAssets]_vars

\* --------------------------------------------------- mixed-currency inputs
\* the quantities (half coins) of the mixed-currency specification
CurQuantities == {1, 2}

CurShape == [type : {"buy", "sell"}, quantity : CurQuantities,
             pricePerCoin : Prices, currencyAtTransaction : Currencies]

\* a transaction array sorted by date ascending, with equal dates in it:
\* the k-th transaction has date (k + 1) \div 2
MkCurTxs(f) ==
    [k \in 1..Len(f) |->
        [type |-> f[k].type, quantity |-> f[k].quantity,
         pricePerCoin |-> f[k].pricePerCoin,
         currencyAtTransaction |-> f[k].currencyAtTransaction,
         date |-> (k + 1) \div 2]]

InitCur ==
    /\ den = 2
    /\ targetReportingCurrency \in Currencies
    /\ txs \in {MkCurTxs(f) : f \in SeqsUpTo(CurShape, MaxCurTx)}
    /\ InitLocals
    /\ SingleCall
    /\ NoDashboard

SpecCur == InitCur /\ [][Next]_vars

\* ----------------------------------------------------------------- claims
WarningsOfKind(kind) ==
    LET IsKind(w) == w.kind = kind IN SelectSeq(warnings, IsKind)

\* the match steps whose lot and sell differ in currency, as (sell, buy) pairs
MismatchedMatches ==
    LET Differ(m) == txs[m.lot].currencyAtTransaction # txs[m.tx].currencyAtTransaction
        ms == SelectSeq(matches, Differ)
    IN [k \in 1..Len(ms) |-> <<ms[k].tx, ms[k].lot>>]

\* the lots the forEach has visited whose currency is not the reporting one
MismatchedLots ==
    LET Foreign(l) == l.currencyAtTransaction # targetReportingCurrency
        seen == IF pc \in {"cost", "done"} THEN SubSeq(buyLots, 1, j - 1) ELSE <<>>
        ls == SelectSeq(seen, Foreign)
    IN [k \in 1..Len(ls) |-> ls[k].src]

\* C12: currency-mismatch warnings are emitted once per match step whose head
\* lot differs in currency from the sell, once per lot of the final queue
\* whose currency differs from the reporting currency, and in no other case;
\* with all currencies equal to the reporting currency there is none.
MismatchWarningsExact ==
    LET pw == WarningsOfKind("pnlCurrency")
        cw == WarningsOfKind("costCurrency")
    IN /\ [k \in 1..Len(pw) |-> <<pw[k].tx, pw[k].lot>>] = MismatchedMatches
       /\ [k \in 1..Len(cw) |-> cw[k].lot] = MismatchedLots
       /\ Len(warnings) = Len(pw) + Len(cw) + Len(WarningsOfKind("oversell"))
       /\ Returned => Len(cw) = Cardinality({k \in 1..Len(result.remainingShares) :
                          result.remainingShares[k].currencyAtTransaction
                              # targetReportingCurrency})
       /\ (\A k \in 1..Len(txs) : txs[k].currencyAtTransaction = targetReportingCurrency)
             => (pw = <<>> /\ cw = <<>>)

\* returned after a match that differed in currency and one that did not,
\* with a lot left in a currency other than the reporting one
MismatchWarningsExactWitness ==
    /\ Returned
    /\ Len(WarningsOfKind("pnlCurrency")) = 1 /\ Len(matches) = 2
    /\ Len(WarningsOfKind("costCurrency")) = 1 /\ Len(result.remainingShares) = 1

\* C17: for an input of buys only, realizedPnL = 0, processedSellTransactions
\* = 0, remainingShares has one lot per buy, in input order, with that buy's
\* quantity and pricePerCoin (no merging), and costOfRemainingShares is the
\* sum of quantity * pricePerCoin over the buys.
OnlyBuys == \A k \in 1..Len(txs) : txs[k].type = "buy"

BuysOnlyResult ==
    (OnlyBuys /\ Returned) =>
        /\ result.realizedPnL = 0
        /\ result.processedSellTransactions = 0
        /\ Len(result.remainingShares) = Len(txs)
        /\ \A k \in 1..Len(txs) :
              /\ result.remainingShares[k].src = k
              /\ result.remainingShares[k].quantity = txs[k].quantity
              /\ result.remainingShares[k].pricePerCoin = txs[k].pricePerCoin
        /\ result.costOfRemainingShares =
              SumOver([k \in 1..Len(txs) |-> txs[k].quantity * txs[k].pricePerCoin],
                      1..Len(txs))

\* returned from three buys, two neighbours at the same price
BuysOnlyResultWitness ==
    /\ OnlyBuys /\ Returned /\ Len(txs) = 3
    /\ txs[1].pricePerCoin = txs[2].pricePerCoin
    /\ txs[2].pricePerCoin # txs[3].pricePerCoin

\* C19: remainingShares is ordered oldest first: its lots are in the order
\* of their buys in the input, so their dates are non-decreasing.
OldestFirst ==
    /\ \A a, b \in 1..Len(buyLots) :
          a < b => /\ buyLots[a].src < buyLots[b].src
                   /\ buyLots[a].date <= buyLots[b].date
    /\ Returned =>
          \A a, b \in 1..Len(result.remainingShares) :
              a < b => /\ result.remainingShares[a].src < result.remainingShares[b].src
                       /\ result.remainingShares[a].date <= result.remainingShares[b].date

\* returned with two lots left, the older one partly sold
OldestFirstWitness ==
    /\ Returned /\ Len(result.remainingShares) = 2
    /\ Len(matches) = 1
    /\ result.remainingShares[1].date < result.remainingShares[2].date

\* C14: the input is never mutated: no step of the run changes the
\* transactions array, also when the lots made from its buys are consumed.
InputNeverMutated == [][txs' = txs]_vars

\* returned after one lot was consumed whole and another one in part
InputNeverMutatedWitness ==
    /\ Returned /\ Len(txs) = 3
    /\ \E m \in 1..Len(matches) : matches[m].qty = matches[m].lotBefore
    /\ \E k \in 1..Len(result.remainingShares) :
          result.remainingShares[k].quantity < txs[result.remainingShares[k].src].quantity

\* C16: an empty transaction list yields realizedPnL = 0, remainingShares =
\* [], costOfRemainingShares = 0 and processedSellTransactions = 0 for every
\* reporting currency, with no warning.
EmptyInputResult ==
    (txs = <<>> /\ Returned) =>
        /\ result = [returned |-> TRUE, realizedPnL |-> 0, remainingShares |-> <<>>,
                     costOfRemainingShares |-> 0, processedSellTransactions |-> 0]
        /\ warnings = <<>>

EmptyInputResultWitness == txs = <<>> /\ Returned /\ targetReportingCurrency # BaseCurrency

\* C18: a buy of q at p followed by a sell of q at s yields realizedPnL =
\* q * (s - p), no lot left, costOfRemainingShares = 0,
\* processedSellTransactions = 1 and no oversell warning.
BuyThenSellAll ==
    (/\ Returned /\ Len(txs) = 2
     /\ txs[1].type = "buy" /\ txs[2].type = "sell"
     /\ txs[1].quantity = txs[2].quantity) =>
        /\ result.realizedPnL
              = txs[1].quantity * (txs[2].pricePerCoin - txs[1].pricePerCoin)
        /\ result.remainingShares = <<>>
        /\ result.costOfRemainingShares = 0
        /\ result.processedSellTransactions = 1
        /\ ~OversellWarned(2)

\* such a run with a gain, on the fine grid with a quantity of at most epsilon
BuyThenSellAllWitness ==
    /\ Returned /\ Len(txs) = 2
    /\ txs[1].type = "buy" /\ txs[2].type = "sell"
    /\ txs[1].quantity = txs[2].quantity /\ LeEpsilon(txs[1].quantity)
    /\ txs[2].pricePerCoin > txs[1].pricePerCoin
    /\ den > EpsInv

\* C20 as stated: once the remainder of a sell is at or below epsilon, no
\* lot is reduced and realizedPnL is not changed any further by that sell.
NoMatchAtOrBelowEpsilon ==
    [][(pc = "while" /\ LeEpsilon(sellQuantityRemaining)) =>
          (buyLots' = buyLots /\ realizedPnL' = realizedPnL)]_vars

\* C20 amended: matching for a sell continues exactly while its remainder is
\* greater than 0 and the queue is non-empty; a remainder in (0, epsilon] is
\* still matched against the head lot, and once the remainder is 0 or the
\* queue is empty no lot is reduced and realizedPnL is not changed.
MatchWhilePositive ==
    [][pc = "while" =>
          IF sellQuantityRemaining > 0 /\ buyLots # <<>>
          THEN /\ pc' = "depleted"
               /\ buyLots'[1].quantity =
                     buyLots[1].quantity - Min(sellQuantityRemaining, buyLots[1].quantity)
               /\ sellQuantityRemaining' =
                     sellQuantityRemaining - Min(sellQuantityRemaining, buyLots[1].quantity)
          ELSE /\ pc' = "for"
               /\ buyLots' = buyLots
               /\ realizedPnL' = realizedPnL]_vars

\* a remainder of at most epsilon was matched and P&L changed by it
MatchWhilePositiveWitness ==
    /\ pc = "for" /\ realizedPnL # 0
    /\ \E m \in 1..Len(matches) :
          /\ matches[m].remBefore > 0 /\ LeEpsilon(matches[m].remBefore)
          /\ matches[m].qty = matches[m].remBefore

\* the invocations that have returned, the running one included
Completed == IF Returned THEN Append(calls, CurrentCall) ELSE calls

\* kind, quantity and unit price of the transactions, without currency codes
Uncoded(t) == [k \in 1..Len(t) |-> <<t[k].type, t[k].quantity, t[k].pricePerCoin>>]

\* the numbers of a result
Numbers(r) == <<r.realizedPnL, QtyPrice(r.remainingShares),
                r.costOfRemainingShares, r.processedSellTransactions>>

\* C11: two runs whose transactions agree on kind, quantity and unit price
\* return the same realizedPnL, lot quantities and unit costs,
\* costOfRemainingShares and processedSellTransactions, whatever the
\* currency codes of the transactions and the reporting currency.
NumbersIgnoreCurrency ==
    \A a, b \in 1..Len(Completed) :
        Uncoded(Completed[a].txs) = Uncoded(Completed[b].txs)
            => Numbers(Completed[a].result) = Numbers(Completed[b].result)

\* two runs have returned that differ in currency codes, one of them with a
\* currency mismatch in a match and in the cost sum, with a gain and a lot left
NumbersIgnoreCurrencyWitness ==
    /\ Len(calls) = 1 /\ Returned
    /\ calls[1].txs # txs /\ calls[1].target # targetReportingCurrency
    /\ Len(WarningsOfKind("pnlCurrency")) > 0
    /\ Len(WarningsOfKind("costCurrency")) > 0
    /\ result.realizedPnL > 0

\* C13: two calls with the same transactions and reporting currency return
\* identical results, also with another invocation between them.
SameInputSameResult ==
    \A a, b \in 1..Len(Completed) :
        (Completed[a].txs = Completed[b].txs /\ Completed[a].target = Completed[b].target)
            => Completed[a].result = Completed[b].result

\* the first input has returned a second time, a different call in between,
\* with a gain and a lot left
SameInputSameResultWitness ==
    /\ Len(calls) = 2 /\ Returned
    /\ calls[1].txs = txs /\ calls[1].target = targetReportingCurrency
    /\ calls[2].txs # txs
    /\ result.realizedPnL > 0 /\ result.remainingShares # <<>>

\* C15: the invocations for two assets run in parallel, in any interleaving
\* of their steps, return for each asset the result of running that asset
\* alone, and so the same summed realizedPnL.
ParallelAsAlone ==
    (Len(calls) = 3 /\ Returned) =>
        /\ \A a \in 1..2 : \A b \in 3..4 :
              Completed[a].txs = Completed[b].txs
                  => Completed[a].result = Completed[b].result
        /\ \A a \in 1..2 : \E b \in 3..4 : Completed[a].txs = Completed[b].txs
        /\ Completed[1].result.realizedPnL + Completed[2].result.realizedPnL
              = Completed[3].result.realizedPnL + Completed[4].result.realizedPnL

\* the second asset's run is suspended between a reduction and its depletion
\* test while the first asset's run is inside its while loop, both with gains
ParallelAsAloneInterleaved ==
    /\ other.suspended /\ calls = <<>>
    /\ pc = "while" /\ other.pc = "depleted"
    /\ realizedPnL > 0 /\ other.realizedPnL > 0

\* both assets have returned alone after having returned in parallel
ParallelAsAloneWitness ==
    /\ Len(calls) = 3 /\ Returned
    /\ calls[1].result.realizedPnL > 0 /\ calls[2].result.realizedPnL > 0
    /\ calls[1].txs # calls[2].txs

\* the matches that left their lot a quantity of at most epsilon
DepletingMatches ==
    {m \in 1..Len(matches) : LeEpsilon(matches[m].lotBefore - matches[m].qty)}

\* C21: after a match step the head lot is popped exactly when its quantity
\* is at most epsilon: a lot reduced to less than epsilon, or to exactly
\* epsilon, is removed and is not in the returned remainingShares nor in
\* costOfRemainingShares; a lot reduced to more than epsilon stays at the
\* head with its reduced quantity.
PoppedIffAtMostEpsilon ==
    /\ [][pc = "depleted" =>
             /\ buyLots' = IF LeEpsilon(buyLots[1].quantity) THEN Tail(buyLots) ELSE buyLots
             /\ buyLots[1].quantity
                   = matches[Len(matches)].lotBefore - matches[Len(matches)].qty]_vars
    /\ [](Returned =>
             /\ \A m \in DepletingMatches :
                   \A k \in 1..Len(result.remainingShares) :
                       result.remainingShares[k].src # matches[m].lot
             /\ result.costOfRemainingShares =
                   SumOver([k \in 1..Len(result.remainingShares) |->
                               result.remainingShares[k].quantity
                               * result.remainingShares[k].pricePerCoin],
                           1..Len(result.remainingShares)))

\* on the fine grid: a lot was reduced to exactly epsilon and is gone from
\* the returned queue, whose cost is that of the one lot behind it
PoppedIffAtMostEpsilonWitness ==
    /\ Returned /\ den > EpsInv
    /\ \E m \in DepletingMatches :
          matches[m].lotBefore - matches[m].qty = den \div EpsInv
    /\ Len(result.remainingShares) = 1
    /\ result.costOfRemainingShares
          = result.remainingShares[1].quantity * result.remainingShares[1].pricePerCoin

\* the for loop is at a transaction of the given type
AtTransaction(type) == pc = "for" /\ i <= Len(txs) /\ txs[i].type = type

\* C22: processing a buy appends exactly one lot, with the buy's quantity,
\* pricePerCoin, currencyAtTransaction and date, at the tail of the queue and
\* leaves realizedPnL, processedSellTransactions and every lot already in the
\* queue unchanged; processing a sell never adds a lot.
BuyAppendsOneLot ==
    [][/\ AtTransaction("buy") =>
             /\ Len(buyLots') = Len(buyLots) + 1
             /\ SubSeq(buyLots', 1, Len(buyLots)) = buyLots
             /\ LET lot == buyLots'[Len(buyLots')]
                IN /\ lot.quantity = txs[i].quantity
                   /\ lot.pricePerCoin = txs[i].pricePerCoin
                   /\ lot.currencyAtTransaction = txs[i].currencyAtTransaction
                   /\ lot.date = txs[i].date
                   /\ lot.src = i
             /\ realizedPnL' = realizedPnL
             /\ processedSellTransactions' = processedSellTransactions
       /\ (AtTransaction("sell") \/ pc \in {"while", "depleted"}) =>
             /\ Len(buyLots') <= Len(buyLots)
             /\ \A b \in 1..Len(buyLots') :
                   \E a \in 1..Len(buyLots) : buyLots[a].src = buyLots'[b].src]_vars

\* a buy has been appended behind a partly sold lot of another currency and
\* of the same price, after a gain or a loss
BuyAppendsOneLotWitness ==
    /\ pc = "for" /\ i = 4 /\ txs[3].type = "buy"
    /\ Len(buyLots) = 2 /\ buyLots[2].src = 3
    /\ buyLots[1].quantity < txs[buyLots[1].src].quantity
    /\ buyLots[1].currencyAtTransaction # buyLots[2].currencyAtTransaction
    /\ buyLots[1].pricePerCoin = buyLots[2].pricePerCoin
    /\ realizedPnL # 0 /\ processedSellTransactions = 1

\* the fields of a lot that no statement writes are those of its buy
FieldsOfBuy(lot) ==
    /\ lot.pricePerCoin = txs[lot.src].pricePerCoin
    /\ lot.currencyAtTransaction = txs[lot.src].currencyAtTransaction
    /\ lot.date = txs[lot.src].date
    /\ lot.quantity <= txs[lot.src].quantity

\* C23: for every lot, pricePerCoin, currencyAtTransaction and date never
\* change after creation and equal the fields of the originating buy; the
\* lot's quantity never increases, and it decreases only in a match step of a
\* sell, by the matched amount.
LotFieldsImmutable ==
    /\ [](/\ \A k \in 1..Len(buyLots) : FieldsOfBuy(buyLots[k])
          /\ Returned => \A k \in 1..Len(result.remainingShares) :
                            FieldsOfBuy(result.remainingShares[k]))
    /\ [][\A a \in 1..Len(buyLots) : \A b \in 1..Len(buyLots') :
             buyLots'[b].src = buyLots[a].src =>
                /\ buyLots'[b].pricePerCoin = buyLots[a].pricePerCoin
                /\ buyLots'[b].currencyAtTransaction = buyLots[a].currencyAtTransaction
                /\ buyLots'[b].date = buyLots[a].date
                /\ buyLots'[b].quantity <= buyLots[a].quantity
                /\ buyLots'[b].quantity < buyLots[a].quantity =>
                      /\ pc = "while" /\ pc' = "depleted"
                      /\ Len(matches') = Len(matches) + 1
                      /\ buyLots[a].quantity - buyLots'[b].quantity
                            = matches'[Len(matches')].qty]_vars

\* returned with a partly sold lot and a later lot that differ in price,
\* currency and date
LotFieldsImmutableWitness ==
    /\ Returned /\ Len(result.remainingShares) = 2
    /\ LET a == result.remainingShares[1]
           b == result.remainingShares[2]
       IN /\ a.quantity < txs[a.src].quantity
          /\ a.pricePerCoin # b.pricePerCoin
          /\ a.currencyAtTransaction # b.currencyAtTransaction
          /\ a.date # b.date

\* ------------------------------------------------ run-to-completion inputs
\* the quantities (grid points) and the one unit price of these inputs
LiveQuantities == {1, 2, 3}

LiveShape == [type : {"buy", "sell"}, quantity : LiveQuantities, pricePerCoin : {1}]

InitLive ==
    /\ den \in Dens
    /\ targetReportingCurrency = BaseCurrency
    /\ txs \in {MkTxs(f) : f \in SeqsUpTo(LiveShape, MaxLiveTx)}
    /\ InitLocals
    /\ SingleCall
    /\ NoDashboard

\* the function is synchronous: once called, it runs until it returns
SpecLive == InitLive /\ [][Next]_vars /\ WF_vars(Next)

\* the transactions the for loop has begun
Begun == IF pc \in {"while", "depleted"} THEN i ELSE i - 1

\* C24: calculateFifoPnl returns on every input with positive quantities;
\* every iteration of the matching loop finishes the current sell (its
\* remainder is 0) or removes one lot, so the number of iterations is at
\* most the number of buys and sells begun, and at most the length of the
\* input when the function returns.
TerminatesLinear ==
    /\ <>Returned
    /\ [](/\ Len(matches) <= Begun
          /\ Returned => Len(matches) <= Len(txs))
    /\ [][pc = "depleted" =>
             \/ sellQuantityRemaining = 0
             \/ (Len(buyLots') = Len(buyLots) - 1 /\ pc' = "while")]_vars

\* returned, on the fine grid, after a sell that removed one lot and left
\* of the next one a residue of at most epsilon, which was removed as well
TerminatesLinearWitness ==
    /\ Returned /\ Len(txs) = 3 /\ Len(matches) = 2
    /\ den > EpsInv
    /\ matches[2].lotBefore - matches[2].qty > 0
    /\ result.remainingShares = <<>>

\* ------------------------------------------------------------ the dashboard
\* PortfolioSummaryDashboard.tsx, with the transactions loaded and no error:
\* the effect of lines 90-107 (holdings), then the effect of lines 190-229
\* (total realized P&L), which calls calculateFifoPnl once per key.
\* A record with string keys is a sequence of entries in insertion order,
\* the order in which Object.entries and for-in visit such keys.
Coins == {"bitcoin", "ethereum"}

HasKey(rec, coin) == \E k \in 1..Len(rec) : rec[k].coinId = coin

KeyIndex(rec, coin) == CHOOSE k \in 1..Len(rec) : rec[k].coinId = coin

\* lines 97-101: one callback of the forEach over transactions
NetAfterIgnoringSells(rec, t) ==
    LET r == IF HasKey(rec, t.coinId) THEN rec
             ELSE Append(rec, [coinId |-> t.coinId, quantity |-> 0])
    IN [k \in 1..Len(r) |->
           IF r[k].coinId # t.coinId THEN r[k]
           ELSE IF t.type = "buy" THEN [r[k] EXCEPT !.quantity = @ + t.quantity]
           ELSE r[k]]
NetAfter(rec, t) ==
    LET r == IF HasKey(rec, t.coinId) THEN rec
             ELSE Append(rec, [coinId |-> t.coinId, quantity |-> 0])
    IN [k \in 1..Len(r) |->
           IF r[k].coinId # t.coinId THEN r[k]
           ELSE IF t.type = "buy" THEN [r[k] EXCEPT !.quantity = @ + t.quantity]
           ELSE IF t.type = "sell" THEN [r[k] EXCEPT !.quantity = @ - t.quantity]
           ELSE r[k]]

\* lines 95-102: the record after the forEach over the first n transactions
RECURSIVE NetHoldings(_, _)
NetHoldings(ts, n) ==
    IF n = 0 THEN <<>> ELSE NetAfter(NetHoldings(ts, n - 1), ts[n])

\* lines 103-105: the entries that pass the filter, as holdings
CurrentHoldings(rec) ==
    LET Listed(e) == ~LeEpsilon(e.quantity) IN SelectSeq(rec, Listed)

\* lines 211-214: one callback of the forEach over transactions
PushedToFirstKey(rec, t) ==
    LET r == IF HasKey(rec, t.coinId) THEN rec
             ELSE Append(rec, [coinId |-> t.coinId, txs |-> <<>>])
    IN [r EXCEPT ![1].txs = Append(@, t)]
Pushed(rec, t) ==
    LET r == IF HasKey(rec, t.coinId) THEN rec
             ELSE Append(rec, [coinId |-> t.coinId, txs |-> <<>>])
    IN [k \in 1..Len(r) |->
           IF r[k].coinId = t.coinId THEN [r[k] EXCEPT !.txs = Append(@, t)]
           ELSE r[k]]

\* line 220: overallPnL += result.realizedPnL
OverallAfter(sum, r) == sum + r.realizedPnL

\* lines 90-107: the holdings effect
HoldingsEffect ==
    /\ dpc = "holdings"
    /\ netHoldings' = NetHoldings(transactions, Len(transactions))
    /\ holdings' = CurrentHoldings(netHoldings')
    /\ dpc' = "pnl"
    /\ UNCHANGED <<transactions, transactionsByCoin, overallPnL, totalRealizedPnL,
                   gIdx, keyIdx, calls, plan, other, txs, targetReportingCurrency,
                   den, i, buyLots, realizedPnL, processedSellTransactions,
                   sellQuantityRemaining, costOfRemainingShares, j, warnings,
                   result, pc, matches, sellLog>>

\* lines 202-206: no transactions
PnlEffectEmpty ==
    /\ dpc = "pnl" /\ Len(transactions) = 0
    /\ totalRealizedPnL' = [set |-> TRUE, value |-> 0]
    /\ dpc' = "shown"
    /\ UNCHANGED <<transactions, netHoldings, holdings, transactionsByCoin, overallPnL,
                   gIdx, keyIdx, calls, plan, other, txs, targetReportingCurrency,
                   den, i, buyLots, realizedPnL, processedSellTransactions,
                   sellQuantityRemaining, costOfRemainingShares, j, warnings,
                   result, pc, matches, sellLog>>

\* lines 208-209: the grouping begins
GroupBegin ==
    /\ dpc = "pnl" /\ Len(transactions) # 0
    /\ transactionsByCoin' = <<>>
    /\ gIdx' = 1
    /\ dpc' = "group"
    /\ UNCHANGED <<transactions, netHoldings, holdings, overallPnL, totalRealizedPnL,
                   keyIdx, calls, plan, other, txs, targetReportingCurrency,
                   den, i, buyLots, realizedPnL, processedSellTransactions,
                   sellQuantityRemaining, costOfRemainingShares, j, warnings,
                   result, pc, matches, sellLog>>

\* lines 210-215: one callback of transactions.forEach
GroupStep ==
    /\ dpc = "group" /\ gIdx <= Len(transactions)
    /\ transactionsByCoin' = Pushed(transactionsByCoin, transactions[gIdx])
    /\ gIdx' = gIdx + 1
    /\ UNCHANGED <<transactions, netHoldings, holdings, overallPnL, totalRealizedPnL,
                   keyIdx, dpc, calls, plan, other, txs, targetReportingCurrency,
                   den, i, buyLots, realizedPnL, processedSellTransactions,
                   sellQuantityRemaining, costOfRemainingShares, j, warnings,
                   result, pc, matches, sellLog>>

\* line 217: the forEach is over
GroupEnd ==
    /\ dpc = "group" /\ gIdx > Len(transactions)
    /\ overallPnL' = 0
    /\ keyIdx' = 1
    /\ dpc' = "loop"
    /\ UNCHANGED <<transactions, netHoldings, holdings, transactionsByCoin,
                   totalRealizedPnL, gIdx, calls, plan, other, txs,
                   targetReportingCurrency, den, i, buyLots, realizedPnL,
                   processedSellTransactions, sellQuantityRemaining,
                   costOfRemainingShares, j, warnings, result, pc, matches, sellLog>>

\* lines 218-219: calculateFifoPnl is called with the group of the next key
CallForCoin ==
    /\ dpc = "loop" /\ keyIdx <= Len(transactionsByCoin)
    /\ txs' = transactionsByCoin[keyIdx].txs
    /\ i' = 1
    /\ buyLots' = <<>>
    /\ realizedPnL' = 0
    /\ processedSellTransactions' = 0
    /\ sellQuantityRemaining' = 0
    /\ costOfRemainingShares' = 0
    /\ j' = 1
    /\ warnings' = <<>>
    /\ result' = NoResult
    /\ pc' = "for"
    /\ matches' = <<>>
    /\ sellLog' = <<>>
    /\ dpc' = "call"
    /\ UNCHANGED <<transactions, netHoldings, holdings, transactionsByCoin, overallPnL,
                   totalRealizedPnL, gIdx, keyIdx, calls, plan, other,
                   targetReportingCurrency, den>>

\* lines 219-220: the call has returned
AddResult ==
    /\ dpc = "call" /\ pc = "done"
    /\ overallPnL' = OverallAfter(overallPnL, result)
    /\ calls' = Append(calls, CurrentCall)
    /\ keyIdx' = keyIdx + 1
    /\ dpc' = "loop"
    /\ UNCHANGED <<transactions, netHoldings, holdings, transactionsByCoin,
                   totalRealizedPnL, gIdx, plan, other, txs,
                   targetReportingCurrency, den, i, buyLots, realizedPnL,
                   processedSellTransactions, sellQuantityRemaining,
                   costOfRemainingShares, j, warnings, result, pc, matches, sellLog>>

\* line 222: setTotalRealizedPnL(overallPnL)
SetTotal ==
    /\ dpc = "loop" /\ keyIdx > Len(transactionsByCoin)
    /\ totalRealizedPnL' = [set |-> TRUE, value |-> overallPnL]
    /\ dpc' = "shown"
    /\ UNCHANGED <<transactions, netHoldings, holdings, transactionsByCoin, overallPnL,
                   gIdx, keyIdx, calls, plan, other, txs, targetReportingCurrency,
                   den, i, buyLots, realizedPnL, processedSellTransactions,
                   sellQuantityRemaining, costOfRemainingShares, j, warnings,
                   result, pc, matches, sellLog>>

\* the quantities (grid points) of the dashboard's transactions
DashQuantities == {1, 3}

DashShape == [type : {"buy", "sell"}, quantity : DashQuantities, coinId : Coins]

\* the list delivered by the query of line 68 (orderBy date asc), with equal
\* dates in it; buys are priced 1 and sells 2
MkDashTxs(f) ==
    [k \in 1..Len(f) |->
        [type |-> f[k].type, quantity |-> f[k].quantity,
         pricePerCoin |-> IF f[k].type = "buy" THEN 1 ELSE 2,
         currencyAtTransaction |-> BaseCurrency,
         date |-> (k + 1) \div 2, coinId |-> f[k].coinId]]

\* the dashboard with its transactions loaded, before its effects run; no
\* activation of calculateFifoPnl exists yet
InitDash ==
    /\ den \in Dens
    /\ targetReportingCurrency = BaseCurrency
    /\ transactions \in {MkDashTxs(f) : f \in SeqsUpTo(DashShape, MaxDashTx)}
    /\ netHoldings = <<>>
    /\ holdings = <<>>
    /\ transactionsByCoin = <<>>
    /\ overallPnL = 0
    /\ totalRealizedPnL = NoValue
    /\ gIdx = 1
    /\ keyIdx = 1
    /\ dpc = "holdings"
    /\ txs = <<>>
    /\ i = 1
    /\ buyLots = <<>>
    /\ realizedPnL = 0
    /\ processedSellTransactions = 0
    /\ sellQuantityRemaining = 0
    /\ costOfRemainingShares = 0
    /\ j = 1
    /\ warnings = <<>>
    /\ result = NoResult
    /\ pc = "idle"
    /\ matches = <<>>
    /\ sellLog = <<>>
    /\ SingleCall

NextDash ==
    \/ Next
    \/ HoldingsEffect
    \/ PnlEffectEmpty
    \/ GroupBegin
    \/ GroupStep
    \/ GroupEnd
    \/ CallForCoin
    \/ AddResult
    \/ SetTotal

SpecDash == InitDash /\ [][NextDash]_vars

\* the transactions of one coin among the first n, in the order of the list
OfCoin(coin, n) ==
    LET IsCoin(t) == t.coinId = coin IN SelectSeq(SubSeq(transactions, 1, n), IsCoin)

\* the transactions the grouping forEach has visited
Grouped == IF dpc = "none" \/ dpc = "holdings" \/ dpc = "pnl" THEN 0
           ELSE IF dpc = "group" THEN gIdx - 1 ELSE Len(transactions)

\* C25: the dashboard partitions the date-ordered list by coinId: every
\* transaction is in exactly one group, a group holds one coinId and keeps
\* the order of the list; calculateFifoPnl is called exactly once per
\* distinct coinId, with that coin's group, and the total shown is the sum
\* of the realizedPnL of these calls.
DashboardPartition ==
    /\ \A a, b \in 1..Len(transactionsByCoin) :
          transactionsByCoin[a].coinId = transactionsByCoin[b].coinId => a = b
    /\ {transactionsByCoin[k].coinId : k \in 1..Len(transactionsByCoin)}
          = {transactions[k].coinId : k \in 1..Grouped}
    /\ \A k \in 1..Len(transactionsByCoin) :
          /\ transactionsByCoin[k].txs = OfCoin(transactionsByCoin[k].coinId, Grouped)
          /\ \A a, b \in 1..Len(transactionsByCoin[k].txs) :
                a < b => transactionsByCoin[k].txs[a].date <= transactionsByCoin[k].txs[b].date
    /\ SumOver([k \in 1..Len(transactionsByCoin) |-> Len(transactionsByCoin[k].txs)],
               1..Len(transactionsByCoin)) = Grouped
    /\ dpc \in {"loop", "call", "shown"} =>
          /\ Len(calls) = (IF dpc = "shown" THEN Len(transactionsByCoin) ELSE keyIdx - 1)
          /\ \A k \in 1..Len(calls) :
                /\ calls[k].txs = transactionsByCoin[k].txs
                /\ calls[k].result.returned
          /\ dpc = "call" => txs = transactionsByCoin[keyIdx].txs
          /\ overallPnL = SumOver([k \in 1..Len(calls) |-> calls[k].result.realizedPnL],
                                  1..Len(calls))
    /\ dpc = "shown" =>
          /\ totalRealizedPnL.set
          /\ totalRealizedPnL.value
                = SumOver([k \in 1..Len(calls) |-> calls[k].result.realizedPnL],
                          1..Len(calls))
          /\ Len(calls) = Cardinality({transactions[k].coinId : k \in 1..Len(transactions)})

\* the total is shown for a list in which a buy and a sell of one coin, with
\* a gain, have a transaction of the other coin between them
DashboardPartitionWitness ==
    /\ dpc = "shown" /\ Len(transactions) = 3 /\ Len(calls) = 2
    /\ transactions[1].coinId = transactions[3].coinId
    /\ transactions[2].coinId # transactions[1].coinId
    /\ calls[1].result.realizedPnL > 0
    /\ totalRealizedPnL.value = calls[1].result.realizedPnL

\* the buys the for loop has processed
BuysProcessed == {k \in 1..Min(i - 1, Len(txs)) : txs[k].type = "buy"}

\* a queue is a contiguous suffix of the buys processed, in their order,
\* and only its head may hold less than its buy
SuffixOfBuys(lots) ==
    /\ \A a, b \in 1..Len(lots) : a < b => lots[a].src < lots[b].src
    /\ lots # <<>> =>
          {lots[k].src : k \in 1..Len(lots)} = {k \in BuysProcessed : k >= lots[1].src}
    /\ \A k \in 2..Len(lots) : lots[k].quantity = txs[lots[k].src].quantity
    /\ \A k \in 1..Len(lots) : lots[k].quantity <= txs[lots[k].src].quantity

\* C26: after every transaction (and at every step of a sell, and in the
\* result) the lots of the queue are those of a contiguous suffix of the
\* buys processed so far, only the head lot may hold less than its buy's
\* quantity, and every other lot holds its full original quantity.
QueueIsSuffixOfBuys ==
    /\ SuffixOfBuys(buyLots)
    /\ Returned => SuffixOfBuys(result.remainingShares)

\* after a sell that removed the lot of the first buy and took a part of the
\* lot of the second
QueueIsSuffixOfBuysWitness ==
    /\ pc = "for" /\ i = 4 /\ BuysProcessed = {1, 2}
    /\ Len(buyLots) = 1 /\ buyLots[1].src = 2
    /\ buyLots[1].quantity < txs[2].quantity

\* the quantity the sells have matched against the lot of buy k
MatchedFrom(k) ==
    SumOver([m \in 1..Len(matches) |-> IF matches[m].lot = k THEN matches[m].qty ELSE 0],
            1..Len(matches))

\* the buys processed whose lot has been popped
PoppedBuys == {k \in BuysProcessed : \A a \in 1..Len(buyLots) : buyLots[a].src # k}

\* what was left of the lot of buy k when it was popped
Residue(k) == txs[k].quantity - MatchedFrom(k)

\* C27: quantity is conserved: in every state the total quantity of the
\* buys processed equals the total matched to sells, plus the quantities of
\* the lots in the queue, plus the residues discarded with popped lots, and
\* each residue is at least 0 and at most epsilon.
QuantityConserved ==
    /\ SumOver([k \in 1..Len(txs) |-> txs[k].quantity], BuysProcessed)
          = SumOver([m \in 1..Len(matches) |-> matches[m].qty], 1..Len(matches))
            + SumQty(buyLots)
            + SumOver([k \in 1..Len(txs) |-> Residue(k)], PoppedBuys)
    /\ \A a \in 1..Len(buyLots) :
          buyLots[a].quantity = txs[buyLots[a].src].quantity - MatchedFrom(buyLots[a].src)
    /\ \A k \in PoppedBuys : Residue(k) >= 0 /\ LeEpsilon(Residue(k))

\* returned, on the fine grid, after a lot was popped with a positive
\* residue while another lot stays in the queue
QuantityConservedWitness ==
    /\ Returned /\ den > EpsInv
    /\ \E k \in PoppedBuys : Residue(k) > 0
    /\ buyLots # <<>> /\ matches # <<>>

\* every lot of a queue was created by a buy that comes after every sell
\* that has emitted an oversell warning
OnlyLotsAfterOversells(lots) ==
    \A w \in 1..Len(warnings) : \A k \in 1..Len(lots) :
        warnings[w].kind = "oversell" => lots[k].src > warnings[w].tx

\* C28: when the matching loop of a sell ends, the sell's remainder is 0 or
\* the queue is empty; an oversell warning is emitted only with the queue
\* empty, and after an oversell the queue, and the returned remainingShares,
\* hold only lots of buys that come after that sell.
LoopEndsMatchedOrEmpty ==
    /\ [][(pc = "while" /\ pc' = "for") =>
             /\ sellQuantityRemaining = 0 \/ buyLots = <<>>
             /\ warnings' # warnings =>
                   /\ buyLots = <<>> /\ buyLots' = <<>>
                   /\ warnings' = Append(warnings,
                                         OversellRecord(i, sellQuantityRemaining))]_vars
    /\ [](/\ OnlyLotsAfterOversells(buyLots)
          /\ Returned => OnlyLotsAfterOversells(result.remainingShares))

\* returned with a lot left after a sell that emptied a non-empty queue and
\* emitted an oversell warning
LoopEndsMatchedOrEmptyWitness ==
    /\ Returned /\ result.remainingShares # <<>>
    /\ \E e \in 1..Len(sellLog) :
          sellLog[e].lots > 0 /\ OversellWarned(sellLog[e].tx)

\* the call for one coin has returned and its locals are still there
CoinReturned == pc = "done" /\ dpc \in {"call", "loop", "shown"}

\* the coin of the returned call, its net holding, and whether it is listed
ReturnedCoin == txs[1].coinId

NetOfReturnedCoin == netHoldings[KeyIndex(netHoldings, ReturnedCoin)].quantity

ReturnedCoinListed == \E k \in 1..Len(holdings) : holdings[k].coinId = ReturnedCoin

\* no sell of the history exceeded the quantity held when it was processed
NoSellOversold ==
    \A e \in 1..Len(sellLog) : txs[sellLog[e].tx].quantity <= sellLog[e].held

\* no match left of its lot a residue in (0, epsilon]
NoSmallResidue ==
    \A m \in 1..Len(matches) :
        \/ matches[m].lotBefore - matches[m].qty = 0
        \/ ~LeEpsilon(matches[m].lotBefore - matches[m].qty)

\* C29 as stated: for a history without oversell and without a residue in
\* (0, epsilon], the dashboard's net holding of the coin equals the sum of
\* the quantities of the returned remainingShares, and the coin is listed as
\* a holding exactly when remainingShares is non-empty.
ListedIffLotsRemain ==
    (CoinReturned /\ NoSellOversold /\ NoSmallResidue) =>
        /\ NetOfReturnedCoin = SumQty(result.remainingShares)
        /\ ReturnedCoinListed <=> result.remainingShares # <<>>

\* C29 amended: for such a history the net holding equals the sum of the
\* quantities of the returned remainingShares, and the coin is listed
\* exactly when that sum is greater than epsilon; a listed coin has lots
\* remaining, but lots of unmatched buys that sum to at most epsilon remain
\* without the coin being listed.
ListedIffRemainderAboveEpsilon ==
    (CoinReturned /\ NoSellOversold /\ NoSmallResidue) =>
        /\ NetOfReturnedCoin = SumQty(result.remainingShares)
        /\ ReturnedCoinListed <=> ~LeEpsilon(SumQty(result.remainingShares))
        /\ ReturnedCoinListed => result.remainingShares # <<>>

\* on the fine grid: a buy sold in full, then a buy of less than epsilon,
\* which remains as a lot of a coin that is not listed
ListedIffRemainderAboveEpsilonWitness ==
    /\ CoinReturned /\ NoSellOversold /\ NoSmallResidue
    /\ dpc = "shown" /\ den > EpsInv
    /\ matches # <<>>
    /\ result.remainingShares # <<>>
    /\ ~ReturnedCoinListed

\* every sell is priced at least as high as every buy
SellsNotBelowBuys ==
    \A s, b \in 1..Len(txs) :
        (txs[s].type = "sell" /\ txs[b].type = "buy")
            => txs[s].pricePerCoin >= txs[b].pricePerCoin

AllPricesEqual == \A a, b \in 1..Len(txs) : txs[a].pricePerCoin = txs[b].pricePerCoin

\* C30: if every sell's pricePerCoin is at least every buy's, realizedPnL is
\* >= 0 after every transaction (and at every step, and in the result); if
\* all prices are equal, realizedPnL is exactly 0 whatever the quantities
\* and however many sells oversell.
PnlSign ==
    /\ SellsNotBelowBuys =>
          /\ realizedPnL >= 0
          /\ Returned => result.realizedPnL >= 0
    /\ AllPricesEqual =>
          /\ realizedPnL = 0
          /\ Returned => result.realizedPnL = 0

\* returned with a gain after a sell, priced as the dearer of two buys, that
\* took both lots and oversold
PnlSignWitness ==
    /\ Returned /\ SellsNotBelowBuys /\ Len(txs) = 3
    /\ result.realizedPnL > 0
    /\ Len(matches) = 2 /\ OversellWarned(3)
    /\ \E m \in 1..Len(matches) :
          txs[matches[m].tx].pricePerCoin = txs[matches[m].lot].pricePerCoin

====
